---- MODULE Spec2Model ----
(***************************************************************************)
(* Routing and pipeline-execution core of agentx.orchestrator:             *)
(*   agent_profiles.py  AgentRegistry over the seeded AGENT_PROFILES       *)
(*   task_router.py     TaskRouter.route / route_with_fallback             *)
(*   pipeline.py        AgentPipeline.create_task / execute_stage / run    *)
(***************************************************************************)
EXTENDS Integers, Sequences, FiniteSets, TLC

VARIABLES
    registry,       \* AgentRegistry._profiles: profiles in dict insertion order
    load_tracker,   \* TaskRouter._load_tracker of the router of the latest call
    lastRoute,      \* the latest TaskRouter.route call: its category and what it returned
    routed,         \* what the successful route calls on the router returned, in call order
    lastChain,      \* the latest list-returning router call and the list it returned
    module_tables,  \* the module-level PRIMARY_ROUTING_TABLE and EMERGENCY_FALLBACK_CHAIN
    tasks,          \* the PipelineTask objects, in order of construction
    task_queue,     \* AgentPipeline._task_queue: objects (indices into tasks)
    stages,         \* config.stages: each stage is the list of its task objects
    execution_log,  \* AgentPipeline._execution_log
    pc,             \* where the running execute_stage / run call stands
    call,           \* the running call: operation, stage, position in the stage
    results,        \* execute_stage's local `results`
    all_results,    \* run's local `all_results`
    ret,            \* what the latest call returned or raised
    processed       \* loop iterations of execute_stage so far

routerVars == <<load_tracker, lastRoute, routed, lastChain, module_tables>>

pipelineVars == <<tasks, task_queue, stages, execution_log, pc, call, results,
                  all_results, ret, processed>>

vars == <<registry, load_tracker, lastRoute, routed, lastChain, module_tables,
          tasks, task_queue, stages, execution_log, pc, call, results,
          all_results, ret, processed>>

-----------------------------------------------------------------------------
(* Bounds *)

\* PipelineTask objects constructed
MaxTasks == 2

\* task slots over all stages of config.stages
MaxSlots == 2

\* iterations of the loop of execute_stage over all calls
MaxProcessed == 4

\* successful route calls on one TaskRouter
MaxRoutes == 2

-----------------------------------------------------------------------------
(* agent_profiles.py *)

Profile(i, r, e) == [id |-> i, priority_rank |-> r, enabled |-> e]

\* The seeded profiles, in the insertion order of the module-level dict.
AGENT_PROFILES ==
    << Profile("claude_code", 2, TRUE),
       Profile("openai_codex", 1, TRUE),
       Profile("github_copilot", 3, TRUE),
       Profile("google_cloud_cli", 5, TRUE),
       Profile("vscode_ai", 6, TRUE),
       Profile("gitlab_duo", 4, TRUE),
       Profile("zapier_duo", 7, TRUE),
       Profile("manus", 2, TRUE),
       Profile("abacus_ai", 3, TRUE),
       Profile("firecrawl", 8, TRUE) >>

None == "None"

IndexOf(reg, i) ==
    IF \E k \in 1..Len(reg) : reg[k].id = i
    THEN CHOOSE k \in 1..Len(reg) : reg[k].id = i
    ELSE 0

\* AgentRegistry.get: Optional[AgentProfile] as a sequence of length 0 or 1
get(reg, i) == IF IndexOf(reg, i) = 0 THEN <<>> ELSE <<reg[IndexOf(reg, i)]>>

\* AgentRegistry.register: dict assignment; an existing key keeps its position
register(reg, p) ==
    IF IndexOf(reg, p.id) = 0
    THEN Append(reg, p)
    ELSE [reg EXCEPT ![IndexOf(reg, p.id)] = p]

\* AgentRegistry.list_enabled
list_enabled(reg) == SelectSeq(reg, LAMBDA p : p.enabled)

\* a sort that is not stable: p goes in front of the elements of equal key
RECURSIVE InsertByRankUnstable(_, _)
InsertByRankUnstable(p, s) ==
    IF s = <<>> THEN <<p>>
    ELSE IF Head(s).priority_rank < p.priority_rank
         THEN <<Head(s)>> \o InsertByRankUnstable(p, Tail(s))
         ELSE <<p>> \o s

\* sorted(..., key=priority_rank): insertion of p behind every element whose
\* key is not greater, which keeps equal keys in their original order
RECURSIVE InsertByRank(_, _)
InsertByRank(p, s) ==
    IF s = <<>> THEN <<p>>
    ELSE IF Head(s).priority_rank <= p.priority_rank
         THEN <<Head(s)>> \o InsertByRank(p, Tail(s))
         ELSE <<p>> \o s

RECURSIVE SortedByRank(_)
SortedByRank(s) ==
    IF s = <<>> THEN <<>>
    ELSE InsertByRank(s[Len(s)], SortedByRank(SubSeq(s, 1, Len(s) - 1)))

\* AgentRegistry.get_ranked
get_ranked(reg) == SortedByRank(list_enabled(reg))

-----------------------------------------------------------------------------
(* task_router.py *)

PRIMARY_ROUTING_TABLE ==
    [ coding |-> <<"openai_codex", "claude_code", "kimi", "github_copilot", "manus">>,
      testing |-> <<"openai_codex", "manus", "kimi_claw", "gitlab_duo", "claude_code">>,
      deployment |-> <<"gitlab_duo", "github_copilot", "google_cloud_cli", "manus", "genspark">>,
      legal |-> <<"abacus_ai", "claude_code">>,
      documentation |-> <<"claude_code", "kimi", "abacus_ai", "github_copilot">>,
      integration |-> <<"zapier_duo", "genspark", "openai_codex", "claude_code", "manus">>,
      remediation |-> <<"claude_code", "openai_codex", "kimi_claw", "gitlab_duo">>,
      automation |-> <<"zapier_duo", "kimi_claw", "manus", "genspark", "vscode_ai", "github_copilot">>,
      security |-> <<"gitlab_duo", "claude_code", "openai_codex">>,
      review |-> <<"claude_code", "kimi", "github_copilot", "gitlab_duo">> ]

EMERGENCY_FALLBACK_CHAIN ==
    <<"deepseek", "groq", "gemini_free", "cloudflare_workers_ai">>

\* PRIMARY_ROUTING_TABLE.get(category, [])
Candidates(category) ==
    IF category \in DOMAIN PRIMARY_ROUTING_TABLE
    THEN PRIMARY_ROUTING_TABLE[category]
    ELSE <<>>

NoAgent == "ValueError"

\* the check without its `profile.enabled` half
UsableIgnoringEnabled(reg, i) == get(reg, i) # <<>>

\* `profile and profile.enabled`
Usable(reg, i) == get(reg, i) # <<>> /\ get(reg, i)[1].enabled

\* the for loop of TaskRouter.route over the static candidates, from position k
RECURSIVE FirstCandidate(_, _, _)
FirstCandidate(reg, cands, k) ==
    IF k > Len(cands) THEN None
    ELSE IF Usable(reg, cands[k]) THEN cands[k]
    ELSE FirstCandidate(reg, cands, k + 1)

\* a route without the ranked fallback of lines 91-99
routeWithoutRankedFallback(reg, category, priority) ==
    LET primary == FirstCandidate(reg, Candidates(category), 1)
    IN  IF primary # None THEN primary ELSE NoAgent

\* TaskRouter.route: the agent id returned, or NoAgent when it raises
route(reg, category, priority) ==
    LET primary == FirstCandidate(reg, Candidates(category), 1)
        ranked == get_ranked(reg)
    IN  IF primary # None THEN primary
        ELSE IF ranked # <<>> THEN ranked[1].id
        ELSE NoAgent

\* a tracker that records an agent without counting its assignments
track_assignmentOnce(lt, i) == [k \in (DOMAIN lt) \cup {i} |-> 1]

\* TaskRouter._track_assignment
track_assignment(lt, i) ==
    [k \in (DOMAIN lt) \cup {i} |->
        IF k = i THEN (IF i \in DOMAIN lt THEN lt[i] ELSE 0) + 1 ELSE lt[k]]

\* TaskRouter.get_load_distribution: dict(self._load_tracker)
get_load_distribution(lt) == lt

\* the two module-level tables as the module defines them
ModuleTables ==
    [primary |-> PRIMARY_ROUTING_TABLE, emergency |-> EMERGENCY_FALLBACK_CHAIN]

\* PRIMARY_ROUTING_TABLE.get(category, [])
TableGet(tabs, category) ==
    IF category \in DOMAIN tabs.primary THEN tabs.primary[category] ELSE <<>>

\* `x in list`
Contains(list, x) == \E k \in 1..Len(list) : list[k] = x

\* a loop that appends every agent of the chain that the list lacks
RECURSIVE AppendEmergencyUnfiltered(_, _, _, _)
AppendEmergencyUnfiltered(reg, chain, candidates, k) ==
    IF k > Len(chain) THEN candidates
    ELSE IF ~Contains(candidates, chain[k])
         THEN AppendEmergencyUnfiltered(reg, chain, Append(candidates, chain[k]), k + 1)
         ELSE AppendEmergencyUnfiltered(reg, chain, candidates, k + 1)

\* lines 149-154: the loop of route_with_fallback over the emergency chain,
\* from position k
RECURSIVE AppendEmergency(_, _, _, _)
AppendEmergency(reg, chain, candidates, k) ==
    IF k > Len(chain) THEN candidates
    ELSE IF ~Contains(candidates, chain[k]) /\ Usable(reg, chain[k])
         THEN AppendEmergency(reg, chain, Append(candidates, chain[k]), k + 1)
         ELSE AppendEmergency(reg, chain, candidates, k + 1)

\* TaskRouter.route_with_fallback: the list it returns, and the module-level
\* tables after the call (line 146 copies the static list before the loop
\* appends to it)
route_with_fallback(tabs, reg, category) ==
    [ candidates |-> AppendEmergency(reg, tabs.emergency,
                                     TableGet(tabs, category), 1),
      tables |-> tabs ]

\* TaskRouter.get_fallback_chain
get_fallback_chain(tabs, category) == TableGet(tabs, category)

\* TaskRouter.get_emergency_fallbacks
get_emergency_fallbacks(tabs, reg) ==
    SelectSeq(tabs.emergency, LAMBDA a : Usable(reg, a))

-----------------------------------------------------------------------------
(* pipeline.py: data *)

PENDING == "pending"
IN_PROGRESS == "in_progress"
COMPLETED == "completed"
FAILED == "failed"
REVIEW == "review"
REMEDIATION == "remediation"

\* hashlib.sha256(f"{title}:{description}:{category}").hexdigest()[:12]: a
\* function of the three strings, taken as free of collisions
TaskId(title, description, category) == <<title, description, category>>

\* PipelineTask(...) as create_task builds it: the other fields at their defaults
NewTask(title, description, category, priority, assigned_agent, dependencies) ==
    [ id |-> TaskId(title, description, category),
      title |-> title,
      category |-> category,
      priority |-> priority,
      status |-> PENDING,
      assigned_agent |-> assigned_agent,
      fallback_agents |-> <<>>,
      dependencies |-> dependencies,
      error_log |-> <<>>,
      retry_count |-> 0,
      max_retries |-> 3 ]

\* the message without the dependency list
BlockedEntryWithoutIds(dependencies) == [kind |-> "Blocked", dependencies |-> <<>>]

\* f"Blocked: dependencies not met: {task.dependencies}"
BlockedEntry(dependencies) == [kind |-> "Blocked", dependencies |-> dependencies]

\* str(e) of the exception caught at line 227
ErrorEntry == [kind |-> "Error", dependencies |-> <<>>]

\* the entry _log_event appends
LogEntry(event_type, task) ==
    [ event |-> event_type,
      task_id |-> task.id,
      task_title |-> task.title,
      agent |-> task.assigned_agent,
      status |-> task.status ]

\* an audit trail that leaves out the task_started events
log_eventTerminalOnly(log, event_type, task) ==
    IF event_type = "task_started" THEN log
    ELSE Append(log, LogEntry(event_type, task))

\* AgentPipeline._log_event: self._execution_log.append(entry)
log_event(log, event_type, task) == Append(log, LogEntry(event_type, task))

\* log0: len(self._execution_log) when the running execute_stage was entered
NoCall == [op |-> None, stage |-> 0, idx |-> 0, log0 |-> 0]

NoReturn ==
    [ op |-> None, kind |-> None, stage |-> 0, events |-> 0,
      tasks |-> <<>>, total_tasks |-> 0,
      completed |-> 0, failed |-> 0, in_review |-> 0, agent_utilization |-> <<>> ]

PipelineInit ==
    /\ tasks = <<>>
    /\ task_queue = <<>>
    /\ stages = <<>>
    /\ execution_log = <<>>
    /\ pc = "idle"
    /\ call = NoCall
    /\ results = <<>>
    /\ all_results = <<>>
    /\ ret = NoReturn
    /\ processed = 0

-----------------------------------------------------------------------------
(* pipeline.py: AgentPipeline *)

\* next((t for t in self._task_queue if t.id == dep_id), None): the object, or 0
FirstWithId(ts, queue, dep_id) ==
    IF \E k \in 1..Len(queue) : ts[queue[k]].id = dep_id
    THEN queue[CHOOSE k \in 1..Len(queue) :
                  /\ ts[queue[k]].id = dep_id
                  /\ \A j \in 1..(k - 1) : ts[queue[j]].id # dep_id]
    ELSE 0

\* a loop that passes over the dependency ids the task queue does not hold
RECURSIVE DependenciesMetFromSkippingUnknown(_, _, _, _)
DependenciesMetFromSkippingUnknown(ts, queue, deps, k) ==
    IF k > Len(deps) THEN TRUE
    ELSE LET dep_task == FirstWithId(ts, queue, deps[k])
         IN  IF dep_task # 0 /\ ts[dep_task].status # COMPLETED
             THEN FALSE
             ELSE DependenciesMetFromSkippingUnknown(ts, queue, deps, k + 1)

\* a loop that asks only that every dependency is in the task queue
RECURSIVE DependenciesMetFromAnyStatus(_, _, _, _)
DependenciesMetFromAnyStatus(ts, queue, deps, k) ==
    IF k > Len(deps) THEN TRUE
    ELSE IF FirstWithId(ts, queue, deps[k]) = 0 THEN FALSE
         ELSE DependenciesMetFromAnyStatus(ts, queue, deps, k + 1)

\* the loop of _check_dependencies over task.dependencies, from position k
RECURSIVE DependenciesMetFrom(_, _, _, _)
DependenciesMetFrom(ts, queue, deps, k) ==
    IF k > Len(deps) THEN TRUE
    ELSE LET dep_task == FirstWithId(ts, queue, deps[k])
         IN  IF dep_task = 0 \/ ts[dep_task].status # COMPLETED
             THEN FALSE
             ELSE DependenciesMetFrom(ts, queue, deps, k + 1)

\* a check that looks at the first dependency only
check_dependenciesFirstOnly(ts, queue, task) ==
    IF task.dependencies = <<>> THEN TRUE
    ELSE DependenciesMetFrom(ts, queue, <<Head(task.dependencies)>>, 1)

\* AgentPipeline._check_dependencies
check_dependencies(ts, queue, task) ==
    DependenciesMetFrom(ts, queue, task.dependencies, 1)

\* a routing that leaves the task's category out and takes the ranked fallback
route_taskByRankOnly(reg, task) == route(reg, "other", task.priority)

\* AgentPipeline._route_task: a TaskRouter over a registry built for the call
route_task(reg, task) == route(reg, task.category, task.priority)

Min(a, b) == IF a <= b THEN a ELSE b

\* Python's list[i]: from the front for i >= 0, from the back for i < 0
PyIndex(list, i) == IF i >= 0 THEN list[i + 1] ELSE list[Len(list) + i + 1]

\* the index taken modulo the length of the list instead of clamped
FallbackAgentWrapping(task) ==
    PyIndex(task.fallback_agents,
            (task.retry_count - 1) % Len(task.fallback_agents))

\* lines 237-239: the fallback agent for a task whose retry_count was counted up
FallbackAgent(task) ==
    PyIndex(task.fallback_agents,
            Min(task.retry_count - 1, Len(task.fallback_agents) - 1))

\* a retry condition that does not look at the retries used
ShouldRemediateIgnoringRetries(task) == task.fallback_agents # <<>>

\* lines 233-236
ShouldRemediate(task) ==
    task.retry_count < task.max_retries /\ task.fallback_agents # <<>>

\* the task execute_stage is at
CurrentStage == stages[call.stage]

\* a loop that walks the stage from its last task to its first
CurrentFromEnd == CurrentStage[Len(CurrentStage) - call.idx + 1]

Current == CurrentStage[call.idx]

InLoop == pc = "loop" /\ call.stage <= Len(stages) /\ call.idx <= Len(CurrentStage)

\* create_task(title, description, category, priority, assigned_agent, dependencies);
\* the exploration is bounded to MaxTasks calls, no two with the same title and
\* dependencies (two of the CreateArgs still hash to the same task id)
CreateTask(title, description, category, priority, assigned_agent, dependencies) ==
    /\ pc = "idle"
    /\ Len(tasks) < MaxTasks
    /\ \A o \in 1..Len(tasks) :
          tasks[o].title # title \/ tasks[o].dependencies # dependencies
    /\ tasks' = Append(tasks, NewTask(title, description, category, priority,
                                      assigned_agent, dependencies))
    /\ task_queue' = Append(task_queue, Len(tasks) + 1)
    /\ UNCHANGED <<registry, routerVars, stages, execution_log, pc, call,
                   results, all_results, ret, processed>>

\* the caller builds a PipelineTask itself, with the id create_task would give
\* it: the task can be put into a stage and is not in the task queue
ConstructTask(title, description, category, priority, assigned_agent, dependencies) ==
    /\ pc = "idle"
    /\ Len(tasks) < MaxTasks
    /\ \A o \in 1..Len(tasks) :
          tasks[o].title # title \/ tasks[o].dependencies # dependencies
    /\ tasks' = Append(tasks, NewTask(title, description, category, priority,
                                      assigned_agent, dependencies))
    /\ UNCHANGED <<registry, routerVars, task_queue, stages, execution_log, pc,
                   call, results, all_results, ret, processed>>

\* the caller sets task.fallback_agents and task.max_retries on a task
\* create_task returned, before the task is first processed (create_task has
\* no parameter for either field); the exploration sets them on the tasks
\* without dependencies
SetRetryPolicy(o, fallback_agents, max_retries) ==
    /\ pc = "idle"
    /\ tasks[o].fallback_agents = <<>>
    /\ tasks[o].dependencies = <<>>
    /\ tasks[o].status = PENDING
    /\ tasks[o].retry_count = 0
    /\ tasks[o].error_log = <<>>
    /\ tasks' = [tasks EXCEPT ![o].fallback_agents = fallback_agents,
                              ![o].max_retries = max_retries]
    /\ UNCHANGED <<registry, routerVars, task_queue, stages, execution_log, pc,
                   call, results, all_results, ret, processed>>

Slots == LET RECURSIVE Count(_)
             Count(k) == IF k = 0 THEN 0 ELSE Len(stages[k]) + Count(k - 1)
         IN  Count(Len(stages))

\* add_stage(PipelineStage(tasks=stage_tasks))
AddStage(stage_tasks) ==
    /\ pc = "idle"
    /\ Slots + Len(stage_tasks) <= MaxSlots
    /\ stages' = Append(stages, stage_tasks)
    /\ UNCHANGED <<registry, routerVars, tasks, task_queue, execution_log, pc,
                   call, results, all_results, ret, processed>>

\* a caller enters execute_stage(config.stages[s])
ExecuteStage(s) ==
    /\ pc = "idle"
    /\ processed + Len(stages[s]) <= MaxProcessed
    /\ pc' = "loop"
    /\ call' = [op |-> "execute_stage", stage |-> s, idx |-> 1,
                log0 |-> Len(execution_log)]
    /\ results' = <<>>
    /\ ret' = NoReturn
    /\ UNCHANGED <<registry, routerVars, tasks, task_queue, stages,
                   execution_log, all_results, processed>>

\* a caller enters run(): lines 248-253, up to the first execute_stage
Run ==
    /\ pc = "idle"
    /\ processed + Slots <= MaxProcessed
    /\ pc' = "loop"
    /\ call' = [op |-> "run", stage |-> 1, idx |-> 1, log0 |-> Len(execution_log)]
    /\ results' = <<>>
    /\ all_results' = <<>>
    /\ ret' = NoReturn
    /\ UNCHANGED <<registry, routerVars, tasks, task_queue, stages,
                   execution_log, processed>>

\* a blocked branch that counts the pass as a retry
TaskBlockedCountingRetry ==
    /\ InLoop
    /\ ~check_dependencies(tasks, task_queue, tasks[Current])
    /\ tasks' = [tasks EXCEPT
                    ![Current].status = PENDING,
                    ![Current].retry_count = @ + 1,
                    ![Current].error_log =
                        Append(@, BlockedEntry(tasks[Current].dependencies))]
    /\ results' = Append(results, Current)
    /\ call' = [call EXCEPT !.idx = @ + 1]
    /\ processed' = processed + 1
    /\ UNCHANGED <<registry, routerVars, task_queue, stages, execution_log, pc,
                   all_results, ret>>

\* lines 210-216: the dependencies are not met
TaskBlocked ==
    /\ InLoop
    /\ ~check_dependencies(tasks, task_queue, tasks[Current])
    /\ tasks' = [tasks EXCEPT
                    ![Current].status = PENDING,
                    ![Current].error_log =
                        Append(@, BlockedEntry(tasks[Current].dependencies))]
    /\ results' = Append(results, Current)
    /\ call' = [call EXCEPT !.idx = @ + 1]
    /\ processed' = processed + 1
    /\ UNCHANGED <<registry, routerVars, task_queue, stages, execution_log, pc,
                   all_results, ret>>

\* a routing error that takes the events of the running stage out of the log
RouteRaisesDroppingEvents ==
    /\ InLoop
    /\ check_dependencies(tasks, task_queue, tasks[Current])
    /\ tasks[Current].assigned_agent = None
    /\ route_task(registry, tasks[Current]) = NoAgent
    /\ lastRoute' = [category |-> tasks[Current].category, agent |-> NoAgent]
    /\ load_tracker' = <<>>
    /\ execution_log' = SubSeq(execution_log, 1, call.log0)
    /\ pc' = "idle"
    /\ ret' = [NoReturn EXCEPT !.op = call.op, !.kind = "raised",
                               !.stage = call.stage,
                               !.events = 0]
    /\ call' = NoCall
    /\ results' = <<>>
    /\ all_results' = <<>>
    /\ processed' = processed + 1
    /\ UNCHANGED <<registry, routed, lastChain, module_tables, tasks, task_queue,
                   stages>>

\* line 219 raises: route finds no agent, and the ValueError leaves
\* execute_stage (and run, when run made the call)
RouteRaises ==
    /\ InLoop
    /\ check_dependencies(tasks, task_queue, tasks[Current])
    /\ tasks[Current].assigned_agent = None
    /\ route_task(registry, tasks[Current]) = NoAgent
    /\ lastRoute' = [category |-> tasks[Current].category, agent |-> NoAgent]
    /\ load_tracker' = <<>>
    /\ pc' = "idle"
    /\ ret' = [NoReturn EXCEPT !.op = call.op, !.kind = "raised",
                               !.stage = call.stage,
                               !.events = Len(execution_log) - call.log0]
    /\ call' = NoCall
    /\ results' = <<>>
    /\ all_results' = <<>>
    /\ processed' = processed + 1
    /\ UNCHANGED <<registry, routed, lastChain, module_tables, tasks, task_queue,
                   stages, execution_log>>

\* an executor that guards against re-entry: a task that is COMPLETED when it
\* is reached is returned as it is, without a new attempt
TaskStartedSkippingCompleted ==
    /\ InLoop
    /\ check_dependencies(tasks, task_queue, tasks[Current])
    /\ LET agent == IF tasks[Current].assigned_agent = None
                    THEN route_task(registry, tasks[Current])
                    ELSE tasks[Current].assigned_agent
           started == [tasks[Current] EXCEPT !.assigned_agent = agent,
                                             !.status = IN_PROGRESS]
       IN  /\ agent # NoAgent
           /\ IF tasks[Current].status = COMPLETED
              THEN /\ results' = Append(results, Current)
                   /\ call' = [call EXCEPT !.idx = @ + 1]
                   /\ UNCHANGED <<tasks, execution_log, lastRoute, load_tracker, pc>>
              ELSE /\ tasks' = [tasks EXCEPT ![Current] = started]
                   /\ execution_log' =
                         log_event(execution_log, "task_started", started)
                   /\ IF tasks[Current].assigned_agent = None
                      THEN /\ lastRoute' = [category |-> tasks[Current].category,
                                            agent |-> agent]
                           /\ load_tracker' = track_assignment(<<>>, agent)
                      ELSE UNCHANGED <<lastRoute, load_tracker>>
                   /\ pc' = "try"
                   /\ UNCHANGED <<call, results>>
    /\ processed' = processed + 1
    /\ UNCHANGED <<registry, routed, lastChain, module_tables, task_queue, stages,
                   all_results, ret>>

\* lines 218-222: assignment, IN_PROGRESS, the task_started event; the router
\* that _route_task builds is called for a task without assigned agent only
TaskStarted ==
    /\ InLoop
    /\ check_dependencies(tasks, task_queue, tasks[Current])
    /\ LET agent == IF tasks[Current].assigned_agent = None
                    THEN route_task(registry, tasks[Current])
                    ELSE tasks[Current].assigned_agent
           started == [tasks[Current] EXCEPT !.assigned_agent = agent,
                                             !.status = IN_PROGRESS]
       IN  /\ agent # NoAgent
           /\ tasks' = [tasks EXCEPT ![Current] = started]
           /\ execution_log' = log_event(execution_log, "task_started", started)
           /\ IF tasks[Current].assigned_agent = None
              THEN /\ lastRoute' = [category |-> tasks[Current].category,
                                    agent |-> agent]
                   /\ load_tracker' = track_assignment(<<>>, agent)
              ELSE UNCHANGED <<lastRoute, load_tracker>>
    /\ pc' = "try"
    /\ processed' = processed + 1
    /\ UNCHANGED <<registry, routed, lastChain, module_tables, task_queue, stages,
                   call, results, all_results, ret>>

\* lines 224-226 and 243: the try body runs through
TaskCompleted ==
    /\ pc = "try"
    /\ LET done == [tasks[Current] EXCEPT !.status = COMPLETED]
       IN  /\ tasks' = [tasks EXCEPT ![Current] = done]
           /\ execution_log' = log_event(execution_log, "task_completed", done)
    /\ results' = Append(results, Current)
    /\ call' = [call EXCEPT !.idx = @ + 1]
    /\ pc' = "loop"
    /\ UNCHANGED <<registry, routerVars, task_queue, stages, all_results, ret,
                   processed>>

\* a handler that records the error and leaves the status as it was
FailedTaskKeepingStatus(task) ==
    [task EXCEPT !.error_log = Append(@, ErrorEntry),
                 !.retry_count = @ + 1]

\* lines 227-231: the state of the task after the handler's first four lines
FailedTask(task) ==
    [task EXCEPT !.status = FAILED,
                 !.error_log = Append(@, ErrorEntry),
                 !.retry_count = @ + 1]

\* a remediation that parks the task for review
RemediatedTaskInReview(failed) ==
    [failed EXCEPT !.assigned_agent = FallbackAgent(failed),
                   !.status = REVIEW]

\* lines 237-240
RemediatedTask(failed) ==
    [failed EXCEPT !.assigned_agent = FallbackAgent(failed),
                   !.status = REMEDIATION]

\* lines 227-243: the try body raises before it has logged task_completed
TaskFailed ==
    /\ pc = "try"
    /\ LET failed == FailedTask(tasks[Current])
           log1 == log_event(execution_log, "task_failed", failed)
       IN  IF ShouldRemediate(failed)
           THEN /\ tasks' = [tasks EXCEPT ![Current] = RemediatedTask(failed)]
                /\ execution_log' =
                      log_event(log1, "task_remediation", RemediatedTask(failed))
           ELSE /\ tasks' = [tasks EXCEPT ![Current] = failed]
                /\ execution_log' = log1
    /\ results' = Append(results, Current)
    /\ call' = [call EXCEPT !.idx = @ + 1]
    /\ pc' = "loop"
    /\ UNCHANGED <<registry, routerVars, task_queue, stages, all_results, ret,
                   processed>>

StageDone == pc = "loop" /\ call.stage <= Len(stages) /\ call.idx > Len(CurrentStage)

\* line 244: execute_stage returns `results` to its caller
StageReturns ==
    /\ StageDone
    /\ call.op = "execute_stage"
    /\ ret' = [NoReturn EXCEPT !.op = "execute_stage", !.kind = "returned",
                               !.stage = call.stage,
                               !.events = Len(execution_log) - call.log0,
                               !.tasks = results]
    /\ pc' = "idle"
    /\ call' = NoCall
    /\ results' = <<>>
    /\ UNCHANGED <<registry, routerVars, tasks, task_queue, stages,
                   execution_log, all_results, processed>>

\* lines 253-254 and 251: run takes the stage's results and goes to the next stage
RunNextStage ==
    /\ StageDone
    /\ call.op = "run"
    /\ all_results' = all_results \o results
    /\ results' = <<>>
    /\ call' = [call EXCEPT !.stage = @ + 1, !.idx = 1,
                            !.log0 = Len(execution_log)]
    /\ UNCHANGED <<registry, routerVars, tasks, task_queue, stages,
                   execution_log, pc, ret, processed>>

\* a count of the distinct tasks, not of the entries, that have the status
CountStatusDistinct(ts, objs, status) ==
    Cardinality({o \in {objs[k] : k \in 1..Len(objs)} : ts[o].status = status})

\* lines 256-258: sum(1 for t in all_results if t.status == status)
CountStatus(ts, objs, status) ==
    Cardinality({k \in 1..Len(objs) : ts[objs[k]].status = status})

\* lines 261-266
Utilization(ts, objs) ==
    LET assigned == {k \in 1..Len(objs) : ts[objs[k]].assigned_agent # None}
        agents == {ts[objs[k]].assigned_agent : k \in assigned}
    IN  [a \in agents |->
            Cardinality({k \in assigned : ts[objs[k]].assigned_agent = a})]

\* lines 256-281: run builds the PipelineResult and returns it
RunReturns ==
    /\ pc = "loop"
    /\ call.op = "run"
    /\ call.stage > Len(stages)
    /\ ret' = [ op |-> "run", kind |-> "returned", stage |-> 0, events |-> 0,
                tasks |-> all_results,
                total_tasks |-> Len(all_results),
                completed |-> CountStatus(tasks, all_results, COMPLETED),
                failed |-> CountStatus(tasks, all_results, FAILED),
                in_review |-> CountStatus(tasks, all_results, REVIEW),
                agent_utilization |-> Utilization(tasks, all_results) ]
    /\ pc' = "idle"
    /\ call' = NoCall
    /\ all_results' = <<>>
    /\ UNCHANGED <<registry, routerVars, tasks, task_queue, stages,
                   execution_log, results, processed>>

\* AgentPipeline.get_status: the counts over the task queue; nothing writes
\* to self._active_agents, so active_agents is the empty list
get_status(ts, queue, stgs) ==
    [ total_tasks |-> Len(queue),
      pending |-> Cardinality({k \in 1..Len(queue) : ts[queue[k]].status = PENDING}),
      in_progress |->
          Cardinality({k \in 1..Len(queue) : ts[queue[k]].status = IN_PROGRESS}),
      completed |->
          Cardinality({k \in 1..Len(queue) : ts[queue[k]].status = COMPLETED}),
      failed |-> Cardinality({k \in 1..Len(queue) : ts[queue[k]].status = FAILED}),
      stages |-> Len(stgs),
      active_agents |-> <<>> ]

-----------------------------------------------------------------------------
(* Inputs of the router operations *)

Priorities == {"critical", "high", "medium", "low"}

\* every category of the static table, and one the table does not know
AllCategories == (DOMAIN PRIMARY_ROUTING_TABLE) \cup {"other"}

\* the categories the callers of the model route
RouteCategories == {"coding", "legal", "other"}

\* the priorities the callers of the model pass
RoutePriorities == {"medium", "critical"}

\* profiles a caller registers: a seeded profile again, enabled or disabled,
\* or a profile for "kimi", which the static table names and the seed lacks
RegisterProfiles ==
    { Profile(AGENT_PROFILES[k].id, AGENT_PROFILES[k].priority_rank, e) :
        k \in 1..Len(AGENT_PROFILES), e \in BOOLEAN }
    \cup { Profile("kimi", 1, e) : e \in BOOLEAN }

-----------------------------------------------------------------------------
(* The router on its own: registry.register(profile), and                   *)
(* TaskRouter(registry).route(category, priority) on a router built for     *)
(* the call, as AgentPipeline._route_task and the tests build it            *)

NoRoute == [category |-> None, agent |-> None]

NoChain == [op |-> None, category |-> None, result |-> <<>>]

\* a router that has not been called, over the tables as the module defines them
RouterInstanceInit ==
    /\ load_tracker = <<>>
    /\ lastRoute = NoRoute
    /\ routed = <<>>
    /\ lastChain = NoChain
    /\ module_tables = ModuleTables

RouterInit ==
    /\ registry = AGENT_PROFILES
    /\ RouterInstanceInit
    /\ PipelineInit

\* AgentRegistry.register(profile); the router of the previous call and what
\* it returned are out of scope by now
Register(p) ==
    /\ registry' = register(registry, p)
    /\ load_tracker' = <<>>
    /\ lastRoute' = NoRoute
    /\ UNCHANGED <<routed, lastChain, module_tables, pipelineVars>>

\* TaskRouter(registry).route(category, priority)
Route(category, priority) ==
    LET agent == route(registry, category, priority)
    IN  /\ lastRoute' = [category |-> category, agent |-> agent]
        /\ load_tracker' = IF agent = NoAgent THEN <<>>
                           ELSE track_assignment(<<>>, agent)
        /\ UNCHANGED <<registry, routed, lastChain, module_tables, pipelineVars>>

RouterNext ==
    \/ \E p \in RegisterProfiles : Register(p)
    \/ \E c \in RouteCategories, pr \in RoutePriorities : Route(c, pr)

RouterSpec == RouterInit /\ [][RouterNext]_vars

-----------------------------------------------------------------------------
(* The pipeline: inputs of its operations *)

Id(title) == TaskId(title, "d", "legal")

\* the arguments of create_task: T1 without dependency; T2 depending on T1;
\* T2 depending on T1 and on itself
CreateArgs ==
    { [title |-> "T1", description |-> "d", category |-> "legal",
       priority |-> "medium", assigned_agent |-> None, dependencies |-> <<>>],
      [title |-> "T2", description |-> "d", category |-> "legal",
       priority |-> "medium", assigned_agent |-> None,
       dependencies |-> <<Id("T1")>>],
      [title |-> "T2", description |-> "d", category |-> "legal",
       priority |-> "medium", assigned_agent |-> None,
       dependencies |-> <<Id("T1"), Id("T2")>>] }

\* fallback_agents and max_retries as callers set them
RetryPolicies ==
    { [fallback_agents |-> <<"claude_code", "manus">>, max_retries |-> 3],
      [fallback_agents |-> <<"claude_code", "manus">>, max_retries |-> 4] }

\* the task lists of a stage: one or two distinct objects, in either order
StageLists ==
    { <<o>> : o \in 1..Len(tasks) }
    \cup { st \in { <<o1, o2>> : o1, o2 \in 1..Len(tasks) } : st[1] # st[2] }

\* the module-level table every profile of which a caller has disabled
AllDisabled ==
    [k \in 1..Len(AGENT_PROFILES) |->
        Profile(AGENT_PROFILES[k].id, AGENT_PROFILES[k].priority_rank, FALSE)]

\* the pipeline is constructed over the seeded table, or over the table with
\* every profile disabled; a router built by a route call is gone after it
Init ==
    /\ registry \in {AGENT_PROFILES, AllDisabled}
    /\ RouterInstanceInit
    /\ PipelineInit

Next ==
    \/ \E a \in CreateArgs :
          CreateTask(a.title, a.description, a.category, a.priority,
                     a.assigned_agent, a.dependencies)
    \/ \E o \in 1..Len(tasks), rp \in RetryPolicies :
          SetRetryPolicy(o, rp.fallback_agents, rp.max_retries)
    \/ \E st \in StageLists : AddStage(st)
    \/ \E s \in 1..Len(stages) : ExecuteStage(s)
    \/ Run
    \/ TaskBlocked
    \/ RouteRaises
    \/ TaskStarted
    \/ TaskCompleted
    \/ TaskFailed
    \/ StageReturns
    \/ RunNextStage
    \/ RunReturns

Spec == Init /\ [][Next]_vars

-----------------------------------------------------------------------------
(* One TaskRouter(registry) that lives across calls: route,                 *)
(* route_with_fallback, get_fallback_chain and get_emergency_fallbacks on   *)
(* it, and registry.register(profile) on the registry it holds              *)

\* the seeded table with every profile but claude_code disabled
OnlyClaudeCode ==
    [k \in 1..Len(AGENT_PROFILES) |->
        Profile(AGENT_PROFILES[k].id, AGENT_PROFILES[k].priority_rank,
                AGENT_PROFILES[k].id = "claude_code")]

\* profiles a caller registers: claude_code again, enabled or disabled, and
\* profiles for two agents of the emergency chain, which the seed lacks
InstanceProfiles ==
    { Profile("claude_code", 2, TRUE), Profile("claude_code", 2, FALSE),
      Profile("deepseek", 1, TRUE), Profile("deepseek", 1, FALSE),
      Profile("groq", 1, TRUE) }

\* two categories of the static table, and one the table does not know
InstanceCategories == {"coding", "legal", "other"}

InstanceInit ==
    /\ registry \in {AGENT_PROFILES, OnlyClaudeCode}
    /\ RouterInstanceInit
    /\ PipelineInit

\* registry.register(profile); what the router returned before is out of
\* scope by now, its load tracker is not
InstanceRegister(p) ==
    /\ registry' = register(registry, p)
    /\ lastRoute' = NoRoute
    /\ lastChain' = NoChain
    /\ UNCHANGED <<load_tracker, routed, module_tables, pipelineVars>>

\* router.route(category, priority)
InstanceRoute(category, priority) ==
    /\ Len(routed) < MaxRoutes \/ route(registry, category, priority) = NoAgent
    /\ LET agent == route(registry, category, priority)
       IN  /\ lastRoute' = [category |-> category, agent |-> agent]
           /\ load_tracker' = IF agent = NoAgent THEN load_tracker
                              ELSE track_assignment(load_tracker, agent)
           /\ routed' = IF agent = NoAgent THEN routed ELSE Append(routed, agent)
    /\ UNCHANGED <<registry, lastChain, module_tables, pipelineVars>>

\* router.route_with_fallback(category)
RouteWithFallback(category) ==
    /\ LET r == route_with_fallback(module_tables, registry, category)
       IN  /\ lastChain' = [op |-> "route_with_fallback", category |-> category,
                            result |-> r.candidates]
           /\ module_tables' = r.tables
    /\ UNCHANGED <<registry, load_tracker, lastRoute, routed, pipelineVars>>

\* router.get_fallback_chain(category)
GetFallbackChain(category) ==
    /\ lastChain' = [op |-> "get_fallback_chain", category |-> category,
                     result |-> get_fallback_chain(module_tables, category)]
    /\ UNCHANGED <<registry, load_tracker, lastRoute, routed, module_tables,
                   pipelineVars>>

\* router.get_emergency_fallbacks()
GetEmergencyFallbacks ==
    /\ lastChain' = [op |-> "get_emergency_fallbacks", category |-> None,
                     result |-> get_emergency_fallbacks(module_tables, registry)]
    /\ UNCHANGED <<registry, load_tracker, lastRoute, routed, module_tables,
                   pipelineVars>>

InstanceNext ==
    \/ \E p \in InstanceProfiles : InstanceRegister(p)
    \/ \E c \in InstanceCategories : InstanceRoute(c, "medium")
    \/ \E c \in InstanceCategories : RouteWithFallback(c)
    \/ \E c \in InstanceCategories : GetFallbackChain(c)
    \/ GetEmergencyFallbacks

InstanceSpec == InstanceInit /\ [][InstanceNext]_vars

-----------------------------------------------------------------------------
(* The pipeline driven by run() alone, over tasks with and without an       *)
(* agent assigned by the caller and with dependencies in either direction   *)

\* the arguments of create_task: T1 without dependency; T2 depending on T1;
\* a task with the id of T1 that depends on T2; two tasks whose agent the
\* caller assigns, one that the seed lacks and one that the seed holds
RunCreateArgs ==
    { [title |-> "T1", description |-> "d", category |-> "legal",
       priority |-> "medium", assigned_agent |-> None, dependencies |-> <<>>],
      [title |-> "T2", description |-> "d", category |-> "legal",
       priority |-> "medium", assigned_agent |-> None,
       dependencies |-> <<Id("T1")>>],
      [title |-> "T1", description |-> "d", category |-> "legal",
       priority |-> "medium", assigned_agent |-> None,
       dependencies |-> <<Id("T2")>>],
      [title |-> "T3", description |-> "d", category |-> "legal",
       priority |-> "medium", assigned_agent |-> "kimi", dependencies |-> <<>>],
      [title |-> "T4", description |-> "d", category |-> "legal",
       priority |-> "medium", assigned_agent |-> "claude_code",
       dependencies |-> <<>>] }

RunNext ==
    \/ \E a \in RunCreateArgs :
          CreateTask(a.title, a.description, a.category, a.priority,
                     a.assigned_agent, a.dependencies)
    \/ \E st \in StageLists : AddStage(st)
    \/ Run
    \/ TaskBlocked
    \/ RouteRaises
    \/ TaskStarted
    \/ TaskCompleted
    \/ TaskFailed
    \/ RunNextStage
    \/ RunReturns

RunSpec == Init /\ [][RunNext]_vars

-----------------------------------------------------------------------------
(* run() over tasks whose dependencies cannot be met: a dependency on an id *)
(* that is not in the task queue, on a task built without create_task, on   *)
(* the task itself, and two tasks that depend on each other                 *)

\* the arguments of create_task: T1 without dependency; T2 depending on T1;
\* a task with the id of T1 that depends on T2; T5 depending on itself
DependencyCreateArgs ==
    { [title |-> "T1", description |-> "d", category |-> "legal",
       priority |-> "medium", assigned_agent |-> None, dependencies |-> <<>>],
      [title |-> "T2", description |-> "d", category |-> "legal",
       priority |-> "medium", assigned_agent |-> None,
       dependencies |-> <<Id("T1")>>],
      [title |-> "T1", description |-> "d", category |-> "legal",
       priority |-> "medium", assigned_agent |-> None,
       dependencies |-> <<Id("T2")>>],
      [title |-> "T5", description |-> "d", category |-> "legal",
       priority |-> "medium", assigned_agent |-> None,
       dependencies |-> <<Id("T5")>>] }

\* the task a caller builds without create_task: T1, without dependency
ConstructArgs ==
    { [title |-> "T1", description |-> "d", category |-> "legal",
       priority |-> "medium", assigned_agent |-> None, dependencies |-> <<>>] }

\* the steps of a run() call that has been entered
RunStep ==
    \/ TaskBlocked
    \/ RouteRaises
    \/ TaskStarted
    \/ TaskCompleted
    \/ TaskFailed
    \/ RunNextStage
    \/ RunReturns

DependencyNext ==
    \/ \E a \in DependencyCreateArgs :
          CreateTask(a.title, a.description, a.category, a.priority,
                     a.assigned_agent, a.dependencies)
    \/ \E a \in ConstructArgs :
          ConstructTask(a.title, a.description, a.category, a.priority,
                        a.assigned_agent, a.dependencies)
    \/ \E st \in StageLists : AddStage(st)
    \/ Run
    \/ RunStep

\* a call of run() that has been entered goes on to its next step: the
\* interpreter does not stop inside the call
DependencySpec == Init /\ [][DependencyNext]_vars /\ WF_vars(RunStep)

-----------------------------------------------------------------------------
(* Properties of the router *)

RegisteredEnabled(reg, i) ==
    \E k \in 1..Len(reg) : reg[k].id = i /\ reg[k].enabled

SomeEnabled(reg) == \E k \in 1..Len(reg) : reg[k].enabled

HasEnabledCandidate(reg, category) ==
    \E k \in 1..Len(Candidates(category)) :
        RegisteredEnabled(reg, Candidates(category)[k])

\* the first static candidate, in list order, that is registered and enabled
FirstEnabledCandidate(reg, category) ==
    LET cands == Candidates(category)
        k == CHOOSE k \in 1..Len(cands) :
                /\ RegisteredEnabled(reg, cands[k])
                /\ \A j \in 1..(k - 1) : ~RegisteredEnabled(reg, cands[j])
    IN  cands[k]

\* the enabled profile of lowest priority_rank, the earliest inserted among equals
LowestRanked(reg) ==
    LET k == CHOOSE k \in 1..Len(reg) :
                /\ reg[k].enabled
                /\ \A j \in 1..Len(reg) : reg[j].enabled =>
                      \/ reg[k].priority_rank < reg[j].priority_rank
                      \/ reg[k].priority_rank = reg[j].priority_rank /\ k <= j
    IN  reg[k].id

Routed == lastRoute # NoRoute

\* C2: whenever a static candidate of the category is registered and enabled,
\* route returns the first such candidate in list order, whatever the
\* priority; with the seeded registry "coding" goes to openai_codex and
\* "legal" to abacus_ai.
C2_FirstEnabledCandidate ==
    /\ (Routed /\ HasEnabledCandidate(registry, lastRoute.category))
          => lastRoute.agent = FirstEnabledCandidate(registry, lastRoute.category)
    /\ \A c \in AllCategories, pr \in Priorities :
          HasEnabledCandidate(registry, c)
              => route(registry, c, pr) = FirstEnabledCandidate(registry, c)
    /\ registry = AGENT_PROFILES =>
          \A pr \in Priorities :
              /\ route(registry, "coding", pr) = "openai_codex"
              /\ route(registry, "legal", pr) = "abacus_ai"

\* the first candidate of "coding" is disabled and route returned the next one
C2_Witness ==
    /\ lastRoute = [category |-> "coding", agent |-> "claude_code"]
    /\ IndexOf(registry, "openai_codex") # 0
    /\ ~RegisteredEnabled(registry, "openai_codex")

\* C3: with no static candidate enabled (or no static list) and some worker
\* enabled, route returns the enabled worker of numerically lowest priority
\* rank, the earliest registered among workers of equal rank.
C3_RankedFallback ==
    /\ (Routed /\ ~HasEnabledCandidate(registry, lastRoute.category)
               /\ SomeEnabled(registry))
          => lastRoute.agent = LowestRanked(registry)
    /\ \A c \in AllCategories, pr \in Priorities :
          (~HasEnabledCandidate(registry, c) /\ SomeEnabled(registry))
              => route(registry, c, pr) = LowestRanked(registry)

\* a category without static list, the rank-1 worker disabled, and two
\* enabled workers of rank 2: the earlier registered one was returned
C3_Witness ==
    /\ lastRoute = [category |-> "other", agent |-> "claude_code"]
    /\ ~RegisteredEnabled(registry, "openai_codex")
    /\ ~RegisteredEnabled(registry, "kimi")
    /\ RegisteredEnabled(registry, "manus")

\* C4: route fails with the no-worker error exactly when the registry has no
\* enabled worker; otherwise it returns a registered, enabled worker, for
\* every category.
C4_FailsIffNoneEnabled ==
    /\ Routed =>
          /\ lastRoute.agent = NoAgent <=> ~SomeEnabled(registry)
          /\ lastRoute.agent # NoAgent => RegisteredEnabled(registry, lastRoute.agent)
    /\ \A c \in AllCategories, pr \in Priorities :
          /\ route(registry, c, pr) = NoAgent <=> ~SomeEnabled(registry)
          /\ route(registry, c, pr) # NoAgent
                => RegisteredEnabled(registry, route(registry, c, pr))

\* every worker is disabled and route raised
C4_Witness ==
    /\ Routed
    /\ lastRoute.agent = NoAgent
    /\ ~SomeEnabled(registry)

\* some static candidates are disabled, another worker is enabled, and route
\* returned a worker
C4_WitnessReturned ==
    /\ Routed
    /\ lastRoute.category = "legal"
    /\ ~HasEnabledCandidate(registry, "legal")
    /\ lastRoute.agent # NoAgent

-----------------------------------------------------------------------------
(* Properties of the pipeline *)

Objects == 1..Len(tasks)

Last(seq) == seq[Len(seq)]

Elements(seq) == {seq[k] : k \in 1..Len(seq)}

\* some task of the queue has this id and is COMPLETED
CompletedInQueue(dep_id) ==
    \E q \in 1..Len(task_queue) :
        /\ tasks[task_queue[q]].id = dep_id
        /\ tasks[task_queue[q]].status = COMPLETED

\* the dependency ids of the task that _check_dependencies does not accept
BlockingIds(task) ==
    { d \in Elements(task.dependencies) :
        \/ FirstWithId(tasks, task_queue, d) = 0
        \/ tasks[FirstWithId(tasks, task_queue, d)].status # COMPLETED }

\* C1: a task is PENDING when create_task has built it, and a step sets a
\* task's status to IN_PROGRESS only in a state where every id of its
\* dependency list is the id of a queued task that is COMPLETED.
C1_InProgressOnlyWhenUnblocked ==
    [][ /\ \A o \in 1..Len(tasks') : o > Len(tasks) => tasks'[o].status = PENDING
        /\ \A o \in Objects :
              (tasks'[o].status = IN_PROGRESS /\ tasks[o].status # IN_PROGRESS)
                  => \A d \in Elements(tasks[o].dependencies) : CompletedInQueue(d)
      ]_vars

\* a task with a dependency is IN_PROGRESS
C1_Witness ==
    /\ pc = "try"
    /\ tasks[Current].status = IN_PROGRESS
    /\ tasks[Current].dependencies # <<>>

\* C5: when execute_stage reaches a task with a dependency that is not
\* COMPLETED, the step leaves the task PENDING, appends to its error log an
\* entry that names the blocking dependency ids, and execute_stage stands at
\* the next task of the stage, the blocked task in its results.
C5_BlockedTaskIsSkipped ==
    [][ (InLoop /\ BlockingIds(tasks[Current]) # {}) =>
            /\ tasks'[Current].status = PENDING
            /\ Len(tasks'[Current].error_log) = Len(tasks[Current].error_log) + 1
            /\ Last(tasks'[Current].error_log).kind = "Blocked"
            /\ BlockingIds(tasks[Current])
                  \subseteq Elements(Last(tasks'[Current].error_log).dependencies)
            /\ pc' = "loop"
            /\ call' = [call EXCEPT !.idx = call.idx + 1]
            /\ results' = Append(results, Current)
            /\ execution_log' = execution_log
      ]_vars

\* execute_stage has returned from a stage of two tasks: the first FAILED,
\* the second, which depends on it, PENDING with one entry that cites the first
C5_Witness ==
    /\ pc = "idle"
    /\ ret.op = "execute_stage"
    /\ ret.kind = "returned"
    /\ Len(ret.tasks) = 2
    /\ tasks[ret.tasks[1]].status = FAILED
    /\ tasks[ret.tasks[2]].status = PENDING
    /\ tasks[ret.tasks[2]].error_log = <<BlockedEntry(<<tasks[ret.tasks[1]].id>>)>>

\* the agents of the task_started events of a task id, in log order
StartedAgents(task_id) ==
    LET started == SelectSeq(execution_log,
                             LAMBDA e : e.event = "task_started" /\ e.task_id = task_id)
    IN  [k \in 1..Len(started) |-> started[k].agent]

EventsOf(task_id, event_type) ==
    Len(SelectSeq(execution_log,
                  LAMBDA e : e.event = event_type /\ e.task_id = task_id))

UniqueId(o) == \A o2 \in Objects : tasks[o2].id = tasks[o].id => o2 = o

\* C6 as claimed: a task with max_retries = 3 and fallback list [F1, F2] whose
\* attempts all failed, three of them at least, was attempted on the primary
\* worker, F1 and F2, in this order and no fourth time, and is FAILED.
C6_Claim ==
    \A o \in Objects :
        ( /\ UniqueId(o)
          /\ tasks[o].max_retries = 3
          /\ Len(tasks[o].fallback_agents) = 2
          /\ tasks[o].retry_count >= 3
          /\ EventsOf(tasks[o].id, "task_completed") = 0 )
        => /\ StartedAgents(tasks[o].id) =
                 << route_task(registry, tasks[o]),
                    tasks[o].fallback_agents[1], tasks[o].fallback_agents[2] >>
           /\ tasks[o].status = FAILED

\* C7: a step that sends a task to remediation assigns
\* fallback_agents[min(retry_count - 1, len(fallback_agents) - 1)] (counted
\* from 0): the retry_count-th fallback agent while the list is long enough,
\* its last element for every greater retry_count.
C7_ClampedFallbackIndex ==
    [][ \A o \in Objects :
          (tasks'[o].status = REMEDIATION /\ tasks[o].status = IN_PROGRESS) =>
            LET fb == tasks'[o].fallback_agents
                rc == tasks'[o].retry_count
            IN  /\ fb # <<>>
                /\ rc >= 1
                /\ rc <= Len(fb) => tasks'[o].assigned_agent = fb[rc]
                /\ rc > Len(fb) => tasks'[o].assigned_agent = fb[Len(fb)]
      ]_vars

\* a task with two fallback agents in remediation after its third failure:
\* retry_count is beyond the length of the list, the agent is the last one
C7_Witness ==
    \E o \in Objects :
        /\ tasks[o].status = REMEDIATION
        /\ Len(tasks[o].fallback_agents) = 2
        /\ tasks[o].retry_count > Len(tasks[o].fallback_agents)
        /\ tasks[o].assigned_agent = Last(tasks[o].fallback_agents)
        /\ tasks[o].assigned_agent # tasks[o].fallback_agents[1]

TerminallyFailed(task) ==
    /\ task.status = FAILED
    /\ \/ task.retry_count >= task.max_retries
       \/ task.fallback_agents = <<>>

\* C8 as claimed: a task that is FAILED with its retries used up or without
\* fallback list is FAILED after every step.
C8_Claim ==
    [][ \A o \in Objects :
          TerminallyFailed(tasks[o]) => tasks'[o].status = FAILED ]_vars

\* C9 as claimed: every execute_stage call returns, and returns the tasks of
\* its stage in declaration order.
C9_Claim ==
    (pc = "idle" /\ ret.op = "execute_stage") =>
        /\ ret.kind = "returned"
        /\ ret.tasks = stages[ret.stage]

\* the audit events execute_stage appends for a task, by the status it leaves
EventsFor(status) ==
    CASE status = PENDING -> 0
      [] status = COMPLETED -> 2
      [] status = FAILED -> 2
      [] status = REMEDIATION -> 3
      [] OTHER -> 0

RECURSIVE EventsForAll(_)
EventsForAll(objs) ==
    IF objs = <<>> THEN 0
    ELSE EventsFor(tasks[Head(objs)].status) + EventsForAll(Tail(objs))

\* C10 as claimed: an execute_stage call that returned has appended as many
\* audit events as its stage has tasks.
C10_Claim ==
    (pc = "idle" /\ ret.op = "execute_stage" /\ ret.kind = "returned") =>
        ret.events = Len(stages[ret.stage])

\* C10, amended: execute_stage appends no audit event for a task it finds
\* blocked, two (task_started, then task_completed or task_failed) for a task
\* it leaves COMPLETED or FAILED, and three (task_started, task_failed,
\* task_remediation) for a task it sends to remediation.
C10_EventsPerOutcome ==
    /\ pc = "loop" =>
          Len(execution_log) - call.log0 = EventsForAll(results)
    /\ (pc = "idle" /\ ret.op = "execute_stage" /\ ret.kind = "returned") =>
          ret.events = EventsForAll(ret.tasks)

\* execute_stage returned two tasks, one sent to remediation and one blocked,
\* and appended three events
C10_Witness ==
    /\ pc = "idle"
    /\ ret.op = "execute_stage"
    /\ ret.kind = "returned"
    /\ Len(ret.tasks) = 2
    /\ tasks[ret.tasks[1]].status = REMEDIATION
    /\ tasks[ret.tasks[2]].status = PENDING
    /\ ret.events = 3

-----------------------------------------------------------------------------
(* Properties of run's result *)

RECURSIVE SumOver(_, _)
SumOver(f, S) ==
    IF S = {} THEN 0
    ELSE LET x == CHOOSE x \in S : TRUE
         IN  f[x] + SumOver(f, S \ {x})

\* the sum of the counts of an agent_utilization map
UtilizationSum(utilization) == SumOver(utilization, DOMAIN utilization)

\* this step is run returning its PipelineResult
RunReturning ==
    /\ pc = "loop"
    /\ call.op = "run"
    /\ pc' = "idle"
    /\ ret'.op = "run"
    /\ ret'.kind = "returned"

\* C11 as claimed: the utilization counts of the PipelineResult that run
\* returns sum to the number of tasks of the stages that have an assigned agent.
C11_Claim ==
    [][ RunReturning =>
          UtilizationSum(ret'.agent_utilization) =
              Cardinality({ o \in Elements(all_results) :
                              tasks[o].assigned_agent # None })
      ]_vars

-----------------------------------------------------------------------------
(* Properties of the router that lives across calls *)

\* C12 as claimed: route_with_fallback returns a non-empty list whenever the
\* registry has an enabled profile.
C12_Claim ==
    (lastChain.op = "route_with_fallback" /\ SomeEnabled(registry)) =>
        lastChain.result # <<>>

NoDuplicates(list) ==
    \A j, k \in 1..Len(list) : list[j] = list[k] => j = k

\* the agents of the emergency chain, in chain order, that the static list of
\* the category lacks and that are registered and enabled
EmergencyExtras(reg, category) ==
    SelectSeq(EMERGENCY_FALLBACK_CHAIN,
              LAMBDA a : /\ a \notin Elements(Candidates(category))
                         /\ RegisteredEnabled(reg, a))

\* C13: route_with_fallback returns the static candidate list of the category
\* in table order, followed by the emergency-chain agents that are not in that
\* list and are registered and enabled, in chain order, no agent twice; the
\* static table and the emergency chain are as the module defines them.
C13_StaticThenEmergency ==
    /\ module_tables = ModuleTables
    /\ lastChain.op = "route_with_fallback" =>
          /\ lastChain.result =
                Candidates(lastChain.category)
                    \o EmergencyExtras(registry, lastChain.category)
          /\ NoDuplicates(lastChain.result)

\* route_with_fallback("legal") over a registry where deepseek is registered
\* and disabled and groq is registered and enabled: groq alone is appended
C13_Witness ==
    /\ lastChain.op = "route_with_fallback"
    /\ lastChain.category = "legal"
    /\ get(registry, "deepseek") # <<>>
    /\ ~RegisteredEnabled(registry, "deepseek")
    /\ RegisteredEnabled(registry, "groq")
    /\ lastChain.result = <<"abacus_ai", "claude_code", "groq">>

\* the tracker counts, for every agent, the route calls that returned it
LoadMatches(lt, returned) ==
    /\ DOMAIN lt = Elements(returned)
    /\ \A w \in DOMAIN lt :
          lt[w] = Cardinality({k \in 1..Len(returned) : returned[k] = w})

\* C19: get_load_distribution()[w] is the number of successful route calls on
\* the router that returned w; a call that is not a successful route (a route
\* that raises, route_with_fallback, get_fallback_chain,
\* get_emergency_fallbacks) leaves every counter as it was.
C19_LoadMatchesRoutes ==
    [][ /\ LoadMatches(get_load_distribution(load_tracker'), routed')
        /\ routed' = routed =>
              get_load_distribution(load_tracker') =
                  get_load_distribution(load_tracker)
      ]_vars

\* a route call raised on a router that had returned the same agent twice
C19_Witness ==
    /\ lastRoute.agent = NoAgent
    /\ Len(routed) = 2
    /\ \E w \in DOMAIN load_tracker : load_tracker[w] = 2

-----------------------------------------------------------------------------
(* Properties of routing errors and of the delegated execution *)

\* C14 as claimed: with no enabled profile in the registry, run does not
\* return a PipelineResult for a pipeline whose stages hold a task.
C14_Claim ==
    (ret.op = "run" /\ ret.kind = "returned" /\ ~SomeEnabled(registry)) =>
        ret.total_tasks = 0

\* execute_stage is at a task it has to route, and the router finds no agent
NoWorkerForCurrent ==
    /\ InLoop
    /\ check_dependencies(tasks, task_queue, tasks[Current])
    /\ tasks[Current].assigned_agent = None
    /\ route_task(registry, tasks[Current]) = NoAgent

\* C15 as claimed: when the router finds no agent for a task, execute_stage
\* marks the task FAILED, leaves its retry_count and its assigned agent as
\* they were, and stands at the next task of the stage.
C15_Claim ==
    [][ NoWorkerForCurrent =>
          /\ tasks'[Current].status = FAILED
          /\ tasks'[Current].retry_count = tasks[Current].retry_count
          /\ tasks'[Current].assigned_agent = None
          /\ pc' = "loop"
          /\ call' = [call EXCEPT !.idx = call.idx + 1]
      ]_vars

\* the results execute_stage obtained from an execution collaborator for a
\* task: the try body of lines 224-226 assigns the status and logs the event,
\* and calls no collaborator
DelegatedResults(task_id) == <<>>

\* C16 as claimed: a task is COMPLETED only if a delegated execution of it
\* returned success.
C16_Claim ==
    \A o \in Objects :
        tasks[o].status = COMPLETED =>
            \E k \in 1..Len(DelegatedResults(tasks[o].id)) :
                DelegatedResults(tasks[o].id)[k].success

-----------------------------------------------------------------------------
(* Properties of remediation, of the order of execution and of run's counts *)

\* the audit events of a task id, in log order
TaskEvents(task_id) ==
    SelectSeq(execution_log, LAMBDA e : e.task_id = task_id)

\* C17: a task in REMEDIATION has retry_count < max_retries and a non-empty
\* fallback list that holds its assigned agent, and it came there from FAILED:
\* the latest two audit events of its id are task_failed, logged with status
\* FAILED, and task_remediation. A task with an empty fallback list or with
\* retry_count >= max_retries is not in REMEDIATION.
C17_RemediationOnlyWithRetriesLeft ==
    \A o \in Objects :
        /\ tasks[o].status = REMEDIATION =>
              /\ tasks[o].retry_count < tasks[o].max_retries
              /\ tasks[o].fallback_agents # <<>>
              /\ tasks[o].assigned_agent \in Elements(tasks[o].fallback_agents)
              /\ LET ev == TaskEvents(tasks[o].id)
                 IN  /\ Len(ev) >= 2
                     /\ ev[Len(ev) - 1].event = "task_failed"
                     /\ ev[Len(ev) - 1].status = FAILED
                     /\ ev[Len(ev)].event = "task_remediation"
                     /\ ev[Len(ev)].status = REMEDIATION
        /\ (tasks[o].fallback_agents = <<>>
              \/ tasks[o].retry_count >= tasks[o].max_retries) =>
              tasks[o].status # REMEDIATION

\* a task in REMEDIATION after its first failure, on its first fallback agent
C17_Witness ==
    \E o \in Objects :
        /\ tasks[o].status = REMEDIATION
        /\ tasks[o].retry_count = 1
        /\ tasks[o].assigned_agent = tasks[o].fallback_agents[1]
        /\ Last(execution_log).event = "task_remediation"

\* every task_started event of the log is directly followed by the
\* task_completed or task_failed event of the same task, or is the last event
StartedThenFinished(log) ==
    \A k \in 1..Len(log) :
        log[k].event = "task_started" =>
            \/ k = Len(log)
            \/ /\ log[k + 1].event \in {"task_completed", "task_failed"}
               /\ log[k + 1].task_id = log[k].task_id
               /\ log[k + 1].task_title = log[k].task_title

\* the events a step appends to the execution log
Appended == SubSeq(execution_log', Len(execution_log) + 1, Len(execution_log'))

\* the task declared at the position of its stage that run is at
Declared == tasks[stages[call.stage][call.idx]]

\* C18: while run executes, its position moves through the tasks of a stage
\* in declaration order and from a stage to the next one once the stage is
\* through; every audit event is of the task declared at the position; a
\* task_started event is appended only while no task is in flight, and it is
\* directly followed in the log by the task_completed or task_failed event of
\* the same task before the position moves on.
C18_DeclarationOrder ==
    [][ /\ StartedThenFinished(execution_log')
        /\ (Len(execution_log') > 0 /\ Last(execution_log').event = "task_started")
              => pc' = "try"
        /\ (call.op = "run" /\ Appended # <<>>) =>
              /\ \A k \in 1..Len(Appended) :
                    /\ Appended[k].task_id = Declared.id
                    /\ Appended[k].task_title = Declared.title
              /\ Appended[1].event = "task_started" =>
                    pc = "loop" /\ pc' = "try" /\ call' = call
              /\ Appended[1].event # "task_started" =>
                    pc = "try" /\ call' = [call EXCEPT !.idx = call.idx + 1]
        /\ (call.op = "run" /\ call'.op = "run") =>
              \/ call'.stage = call.stage /\ call'.idx \in {call.idx, call.idx + 1}
              \/ /\ call'.stage = call.stage + 1
                 /\ call'.idx = 1
                 /\ call.idx = Len(stages[call.stage]) + 1
      ]_vars

\* run is at the second task of a stage, which is in flight; the first task
\* of the stage was started and completed before
C18_Witness ==
    /\ call.op = "run"
    /\ pc = "try"
    /\ call.idx = 2
    /\ Len(execution_log) - call.log0 = 3
    /\ execution_log[Len(execution_log) - 1].event = "task_completed"
    /\ execution_log[Len(execution_log) - 1].task_id = tasks[stages[call.stage][1]].id

\* the positions of the stages whose task has the status
EntriesWith(status) ==
    { e \in UNION { { <<s, k>> : k \in 1..Len(stages[s]) } : s \in 1..Len(stages) } :
        tasks[stages[e[1]][e[2]]].status = status }

\* C20: run raises only when the router finds no agent for the task it is at,
\* never because a task failed or was blocked; the PipelineResult it returns
\* has completed, failed and in_review equal to the numbers of stage entries
\* whose task is COMPLETED, FAILED and REVIEW when run returns, and total_tasks
\* equal to the number of entries of all stages, so that entries left PENDING
\* or in REMEDIATION are in none of the three counts.
C20_RunCountsEntries ==
    [][ (pc = "loop" /\ call.op = "run" /\ pc' = "idle") =>
          /\ ret'.kind = "raised" => NoWorkerForCurrent
          /\ ret'.kind = "returned" =>
                /\ ret'.completed = Cardinality(EntriesWith(COMPLETED))
                /\ ret'.failed = Cardinality(EntriesWith(FAILED))
                /\ ret'.in_review = Cardinality(EntriesWith(REVIEW))
                /\ ret'.total_tasks = Slots
                /\ ret'.total_tasks =
                      ret'.completed + ret'.failed + ret'.in_review
                        + Cardinality(EntriesWith(PENDING))
                        + Cardinality(EntriesWith(REMEDIATION))
      ]_vars

\* run returned a result over two entries, one of them completed and the
\* other counted in none of the three fields
C20_Witness ==
    /\ pc = "idle"
    /\ ret.op = "run"
    /\ ret.kind = "returned"
    /\ ret.total_tasks = 2
    /\ ret.completed = 1
    /\ ret.failed = 0
    /\ ret.in_review = 0

-----------------------------------------------------------------------------
(* Properties of create_task and of the seeded registry *)

\* C21 as claimed: the task queue never holds two tasks with the same id.
C21_Claim ==
    \A j, k \in 1..Len(task_queue) :
        tasks[task_queue[j]].id = tasks[task_queue[k]].id => j = k

\* some agent of the emergency chain is in the list
HasEmergencyAgent(list) ==
    \E k \in 1..Len(list) : list[k] \in Elements(EMERGENCY_FALLBACK_CHAIN)

\* C22 as claimed: over the registry as seeded, the list route_with_fallback
\* returns holds an agent of the emergency chain.
C22_Claim ==
    (lastChain.op = "route_with_fallback" /\ registry = AGENT_PROFILES) =>
        HasEmergencyAgent(lastChain.result)

-----------------------------------------------------------------------------
(* Properties of the task statuses between and across calls *)

\* C23: create_task, execute_stage, run and get_status never write REVIEW: no
\* task is in REVIEW, no audit event records the status REVIEW, and every
\* PipelineResult that run returns has in_review = 0.
C23_NeverInReview ==
    /\ \A o \in 1..Len(tasks) : tasks[o].status # REVIEW
    /\ \A k \in 1..Len(execution_log) : execution_log[k].status # REVIEW
    /\ (ret.op = "run" /\ ret.kind = "returned") => ret.in_review = 0

\* run returned over a completed and a failed task, and a task was sent to
\* remediation on the way
C23_Witness ==
    /\ pc = "idle"
    /\ ret.op = "run"
    /\ ret.kind = "returned"
    /\ ret.completed = 1
    /\ ret.failed = 1
    /\ ret.in_review = 0
    /\ \E k \in 1..Len(execution_log) : execution_log[k].event = "task_remediation"

\* C25: a task is IN_PROGRESS only while execute_stage is inside the try
\* block for it, and it is the task the call is at; so when execute_stage or
\* run has returned or raised no task is IN_PROGRESS, the tasks the call
\* returned are COMPLETED, FAILED, in REMEDIATION or (blocked) PENDING, and
\* get_status reports in_progress = 0.
C25_NoneInProgressBetweenCalls ==
    /\ \A o \in 1..Len(tasks) :
          tasks[o].status = IN_PROGRESS => (pc = "try" /\ o = Current)
    /\ pc = "idle" =>
          /\ get_status(tasks, task_queue, stages).in_progress = 0
          /\ \A k \in 1..Len(ret.tasks) :
                tasks[ret.tasks[k]].status
                    \in {COMPLETED, FAILED, REMEDIATION, PENDING}

\* execute_stage returned two tasks, each started and finished in the call,
\* one of them COMPLETED and the other FAILED
C25_Witness ==
    /\ pc = "idle"
    /\ ret.op = "execute_stage"
    /\ ret.kind = "returned"
    /\ Len(ret.tasks) = 2
    /\ ret.events = 4
    /\ get_status(tasks, task_queue, stages).completed = 1
    /\ get_status(tasks, task_queue, stages).failed = 1
    /\ get_status(tasks, task_queue, stages).in_progress = 0

\* the log after the step starts with the log before it
LogGrows ==
    /\ Len(execution_log') >= Len(execution_log)
    /\ SubSeq(execution_log', 1, Len(execution_log)) = execution_log

-----------------------------------------------------------------------------
(* Frame properties of execute_stage *)

\* C26: the step of execute_stage over a task whose dependencies are not met
\* changes of that task the status, which becomes PENDING, and the error log,
\* which gets one entry at its end, and nothing else: the assigned agent, the
\* retry count and the other fields stay, no other task changes, the router
\* is not called (its last call and its load tracker are as before) and the
\* execution log, the task queue and the stages are as before.
C26_BlockedStepFrame ==
    [][ (InLoop /\ ~check_dependencies(tasks, task_queue, tasks[Current])) =>
            /\ tasks'[Current] =
                  [tasks[Current] EXCEPT !.status = tasks'[Current].status,
                                         !.error_log = tasks'[Current].error_log]
            /\ tasks'[Current].status = PENDING
            /\ Len(tasks'[Current].error_log) = Len(tasks[Current].error_log) + 1
            /\ SubSeq(tasks'[Current].error_log, 1, Len(tasks[Current].error_log))
                  = tasks[Current].error_log
            /\ tasks'[Current].assigned_agent = tasks[Current].assigned_agent
            /\ tasks'[Current].retry_count = tasks[Current].retry_count
            /\ Len(tasks') = Len(tasks)
            /\ \A o \in 1..Len(tasks) : o # Current => tasks'[o] = tasks[o]
            /\ UNCHANGED <<registry, routerVars, task_queue, stages, execution_log>>
      ]_vars

\* a task was blocked in two passes: two entries in its error log, no retry
\* counted, no agent assigned, no audit event for it and no call of the router
C26_Witness ==
    \E o \in 1..Len(tasks) :
        /\ pc = "idle"
        /\ tasks[o].status = PENDING
        /\ Len(tasks[o].error_log) = 2
        /\ \A k \in 1..2 : tasks[o].error_log[k].kind = "Blocked"
        /\ tasks[o].retry_count = 0
        /\ tasks[o].assigned_agent = None
        /\ execution_log = <<>>
        /\ lastRoute = NoRoute
        /\ load_tracker = <<>>

\* C27: when execute_stage reaches a task whose dependencies are met, a task
\* that has an assigned agent is started with that agent and the router is not
\* called (its last call and its load tracker are as before), whatever the
\* registry holds; a task without assigned agent is given the agent that
\* route(category, priority) returns, or the call ends with route's error and
\* the task as it was; and the try body that completes a task leaves its
\* assigned agent.
C27_RoutedOnlyWhenUnassigned ==
    [][ /\ (InLoop /\ check_dependencies(tasks, task_queue, tasks[Current])) =>
              IF tasks[Current].assigned_agent # None
              THEN /\ UNCHANGED <<lastRoute, load_tracker>>
                   /\ tasks'[Current].assigned_agent = tasks[Current].assigned_agent
                   /\ tasks'[Current].status = IN_PROGRESS
                   /\ Last(execution_log').agent = tasks[Current].assigned_agent
              ELSE LET agent == route(registry, tasks[Current].category,
                                      tasks[Current].priority)
                   IN  /\ lastRoute' = [category |-> tasks[Current].category,
                                        agent |-> agent]
                       /\ IF agent = NoAgent
                          THEN tasks' = tasks /\ ret'.kind = "raised"
                          ELSE /\ tasks'[Current].assigned_agent = agent
                               /\ tasks'[Current].status = IN_PROGRESS
                               /\ load_tracker' = track_assignment(<<>>, agent)
        /\ (pc = "try" /\ tasks'[Current].status = COMPLETED) =>
              tasks'[Current].assigned_agent = tasks[Current].assigned_agent
      ]_vars

\* over a registry with every profile disabled, run completed a task assigned
\* to an agent the registry does not hold and a task assigned to a disabled
\* agent, and the router was never called
C27_Witness ==
    /\ pc = "idle"
    /\ registry = AllDisabled
    /\ ret.op = "run"
    /\ ret.kind = "returned"
    /\ ret.completed = 2
    /\ get(registry, "kimi") = <<>>
    /\ \E o \in 1..Len(tasks) :
          tasks[o].assigned_agent = "kimi" /\ tasks[o].status = COMPLETED
    /\ \E o \in 1..Len(tasks) :
          tasks[o].assigned_agent = "claude_code" /\ tasks[o].status = COMPLETED
    /\ lastRoute = NoRoute
    /\ load_tracker = <<>>

\* run gave a task without assigned agent the agent of the routing table
C27_WitnessRouted ==
    /\ pc = "try"
    /\ lastRoute = [category |-> "legal", agent |-> "abacus_ai"]
    /\ tasks[Current].assigned_agent = "abacus_ai"
    /\ tasks[Current].status = IN_PROGRESS

-----------------------------------------------------------------------------
(* Properties of the dependency check *)

\* the tasks that the dependency ids of task o resolve to in the task queue
DependencyObjects(o) ==
    { FirstWithId(tasks, task_queue, tasks[o].dependencies[k]) :
          k \in 1..Len(tasks[o].dependencies) } \ {0}

\* S with the tasks that the tasks of S depend on, n times over
RECURSIVE DependencyClosure(_, _)
DependencyClosure(S, n) ==
    IF n = 0 THEN S
    ELSE DependencyClosure(S \cup UNION { DependencyObjects(x) : x \in S }, n - 1)

\* the tasks that task o depends on, directly or through other tasks
DependsOn(o) == DependencyClosure(DependencyObjects(o), Len(tasks))

\* task o depends on itself, directly or through other tasks
InCycle(o) == o \in DependsOn(o)

\* a dependency id of the task matches no task of the task queue
UnknownDependency(task) ==
    \E k \in 1..Len(task.dependencies) :
        FirstWithId(tasks, task_queue, task.dependencies[k]) = 0

\* C28: a task one of whose dependency ids matches no task of the task queue,
\* and a task that depends on itself directly or through other tasks, is
\* PENDING, with no retry counted and no agent assigned; when execute_stage
\* reaches a task with a dependency id that is not in the queue it takes the
\* blocked branch and goes on to the next task; and every run() that has been
\* entered ends: the pipeline is between calls again and again.
C28_UnmetDependenciesBlock ==
    /\ [](\A o \in 1..Len(tasks) :
             (UnknownDependency(tasks[o]) \/ InCycle(o)) =>
                 /\ tasks[o].status = PENDING
                 /\ tasks[o].retry_count = 0
                 /\ tasks[o].assigned_agent = None)
    /\ [][ (InLoop /\ UnknownDependency(tasks[Current])) =>
               /\ tasks'[Current].status = PENDING
               /\ Len(tasks'[Current].error_log) = Len(tasks[Current].error_log) + 1
               /\ execution_log' = execution_log
               /\ pc' = "loop"
               /\ call' = [call EXCEPT !.idx = call.idx + 1] ]_vars
    /\ []<>(pc = "idle")

\* run returned over two tasks that depend on each other: both are PENDING,
\* each with one entry in its error log, and nothing was logged
C28_Witness ==
    /\ pc = "idle"
    /\ ret.op = "run"
    /\ ret.kind = "returned"
    /\ Len(ret.tasks) = 2
    /\ ret.tasks[1] # ret.tasks[2]
    /\ ret.tasks[1] \in DependencyObjects(ret.tasks[2])
    /\ ret.tasks[2] \in DependencyObjects(ret.tasks[1])
    /\ \A k \in 1..2 :
          /\ tasks[ret.tasks[k]].status = PENDING
          /\ Len(tasks[ret.tasks[k]].error_log) = 1
    /\ ret.completed = 0
    /\ execution_log = <<>>

\* run returned over a task built without create_task, which it completed,
\* and a task that depends on that task's id, which it left PENDING
C28_WitnessNotInQueue ==
    /\ pc = "idle"
    /\ ret.op = "run"
    /\ ret.kind = "returned"
    /\ Len(ret.tasks) = 2
    /\ tasks[ret.tasks[1]].status = COMPLETED
    /\ \A k \in 1..Len(task_queue) : task_queue[k] # ret.tasks[1]
    /\ tasks[ret.tasks[2]].dependencies = <<tasks[ret.tasks[1]].id>>
    /\ tasks[ret.tasks[2]].status = PENDING
    /\ UnknownDependency(tasks[ret.tasks[2]])

\* run returned twice over a task that depends on itself
C28_WitnessSelf ==
    /\ pc = "idle"
    /\ ret.op = "run"
    /\ ret.kind = "returned"
    /\ Len(ret.tasks) = 1
    /\ ret.tasks[1] \in DependencyObjects(ret.tasks[1])
    /\ tasks[ret.tasks[1]].status = PENDING
    /\ Len(tasks[ret.tasks[1]].error_log) = 2

\* the task is in one entry of the stages that the run has processed
Once(o) == Cardinality({k \in 1..Len(all_results) : all_results[k] = o}) = 1

C29_WitnessSameRun ==
    /\ pc = "idle"
    /\ ret.op = "run"
    /\ ret.kind = "returned"
    /\ Len(ret.tasks) = 2
    /\ DependencyObjects(ret.tasks[2]) = {ret.tasks[1]}
    /\ ret.completed = 2
    /\ tasks[ret.tasks[2]].error_log = <<>>
    /\ Len(execution_log) = 4

-----------------------------------------------------------------------------
(* Properties of run() when routing raises *)

\* C30: when run reaches a task without assigned agent whose dependencies
\* are met and for which route finds no agent, the step ends the call with
\* the error and nothing else changes: every task, the unroutable one
\* included, and the execution log are as they were, so what the run did
\* before stays and the unroutable task has no agent, no event and no new
\* entry in its error log; the call returns no result and is at no stage any
\* more.
C30_NoRollbackWhenRoutingRaises ==
    [][ (InLoop /\ call.op = "run" /\ NoWorkerForCurrent) =>
            /\ tasks' = tasks
            /\ execution_log' = execution_log
            /\ tasks'[Current].assigned_agent = None
            /\ UNCHANGED <<task_queue, stages, registry>>
            /\ pc' = "idle"
            /\ call' = NoCall
            /\ ret'.op = "run"
            /\ ret'.kind = "raised"
            /\ ret'.tasks = <<>>
            /\ lastRoute'.agent = NoAgent
      ]_vars

\* run completed a task that had an agent assigned and then raised at a task
\* it could not route: the first task is COMPLETED and its two events are in
\* the log, the second is PENDING as created
C30_Witness ==
    /\ pc = "idle"
    /\ ret.op = "run"
    /\ ret.kind = "raised"
    /\ Len(stages) >= 1
    /\ Len(stages[1]) = 2
    /\ tasks[stages[1][1]].status = COMPLETED
    /\ tasks[stages[1][2]].status = PENDING
    /\ tasks[stages[1][2]].assigned_agent = None
    /\ tasks[stages[1][2]].error_log = <<>>
    /\ Len(execution_log) = 2
    /\ \A k \in 1..2 : execution_log[k].task_id = tasks[stages[1][1]].id
    /\ execution_log[2].event = "task_completed"

====
